---- MODULE Spec2Model ----
(***************************************************************************)
(* target-gcs: a Singer target that buffers the RECORD messages of each    *)
(* stream in a temporary file and uploads the files to a GCS bucket.       *)
(* The model follows src/target_gcs/__init__.py: persist_lines (the loop   *)
(* over the input lines and the final flush), _load_to_gcs, emit_state and *)
(* main.                                                                   *)
(*                                                                         *)
(* Ghost state: lines_read is the input consumed so far, gcs is the log of *)
(* blob.upload_from_filename calls that succeeded.  A row of a temporary   *)
(* file is identified by the number of the input line it was written for.  *)
(***************************************************************************)
EXTENDS Integers, Sequences, FiniteSets, TLC

\* ------------------------------------------------------------------ bounds

\* Python's None (a missing key of a message is modelled by None as well).
None == "None"

\* Stream names of the input.
Streams == {"A", "B"}

\* Longest input of the general specification.
MaxLines == 4

\* Longest input of the records-only specification.
MaxRecordLines == 6

\* Largest configured sync_batch besides the default.
MaxSyncBatch == 3

\* config.get("sync_batch", 1000000)
DefaultSyncBatch == 1000000

\* Values of a STATE message: a falsy one and a mapping; None is JSON null.
StateValues == {"int_0", "dict_bookmark_1"}

\* Record payloads and the schemas of SCHEMA messages.
Records == {"rec_id_int", "rec_id_str"}
Schemas == {"schema_id_int"}

\* Draft4Validator(schema).validate(record): the record conforms to the schema.
Conforms(record, schema) ==
    schema = "schema_id_int" /\ record = "rec_id_int"

\* json.dumps of a STATE value.
JsonDumps(v) ==
    CASE v = "int_0" -> "0"
      [] v = "dict_bookmark_1" -> "{\"bookmark\": 1}"
      [] OTHER -> "null"

\* ------------------------------------------------------------------ input

Msg(t, s, b, k) == [type |-> t, stream |-> s, body |-> b, kp |-> k]

RecordLines == {Msg("RECORD", s, r, FALSE) : s \in Streams, r \in Records}
StateLines == {Msg("STATE", None, v, FALSE) : v \in StateValues \cup {None}}
SchemaLines == {Msg("SCHEMA", s, d, TRUE) : s \in Streams, d \in Schemas}
UnknownLines == {Msg("ACTIVATE_VERSION", None, None, FALSE)}

\* Lines that raise: not JSON, no "type", RECORD or SCHEMA without "stream",
\* SCHEMA without "key_properties".
UndecodableLine == Msg("<undecodable>", None, None, FALSE)
NoTypeLine == Msg(None, None, None, FALSE)
NoStreamLines == {Msg("RECORD", None, "rec_id_int", FALSE),
                  Msg("SCHEMA", None, "schema_id_int", TRUE)}
NoKeyPropertiesLines == {Msg("SCHEMA", s, d, FALSE) : s \in Streams, d \in Schemas}

\* ------------------------------------------------------------------ state

VARIABLES
    sync_batch,              \* config["sync_batch"]
    sync_if_stream_changes,  \* config["sync_if_stream_changes"]
    stream_config,           \* stream -> [tmp_file, nb_sync, nb_records]
    stream_keys,             \* insertion order of stream_config's keys
    previous_stream,
    state,
    schemas,
    validators,
    key_properties,
    pc,                      \* "loop", "final", "returned", "done", "raised"
    error,                   \* the exception that ended the run, or None
    final_pos,               \* position of the final loop in stream_keys
    gcs,                     \* log of the successful uploads
    stdout,                  \* lines written by emit_state
    lines_read               \* the input lines consumed so far

vars == <<sync_batch, sync_if_stream_changes, stream_config, stream_keys,
          previous_stream, state, schemas, validators, key_properties,
          pc, error, final_pos, gcs, stdout, lines_read>>

config == <<sync_batch, sync_if_stream_changes>>
registry == <<schemas, validators, key_properties>>
batches == <<stream_config, stream_keys>>

\* ------------------------------------------------------------------ helpers

\* d[k] = v on a dict modelled as a function.
Put(d, k, v) == [x \in DOMAIN d \cup {k} |-> IF x = k THEN v ELSE d[x]]

EmptyDict == [x \in {} |-> None]

\* The entry created for a new stream.
NewStreamEntry == [tmp_file |-> <<>>, nb_sync |-> 1, nb_records |-> 0]

\* As AppendRow, with the row written at the start of the file.
PrependRow(entry, line) ==
    [entry EXCEPT !.tmp_file = <<line>> \o @, !.nb_records = @ + 1]

\* tmp_file.write(str(flattened_record)); tmp_file.write("\n"); nb_records += 1
AppendRow(entry, line) ==
    [entry EXCEPT !.tmp_file = Append(@, line), !.nb_records = @ + 1]

\* As IsEmptyFile, with the size check dropped: every file is uploaded.
NeverEmptyFile(file) == FALSE

\* os.stat(file_to_load.name).st_size == 0
IsEmptyFile(file) == Len(file) = 0

\* As Truncated, with the rows left in the file.
NotTruncated(file) == file

\* file_to_load.seek(0); file_to_load.truncate()
Truncated(file) == <<>>

\* "{}_{}.json".format(stream, nb_sync) under os.path.join(object_path, stream)
BlobName(stream, nb_sync) == <<stream, nb_sync>>

\* As AdvanceSync, without the increment.
KeepSync(entry) == entry

\* stream_config[stream]['nb_sync'] += 1
AdvanceSync(entry) == [entry EXCEPT !.nb_sync = @ + 1]

\* As StreamToSync, with the batch test a threshold on the counter.
StreamToSyncAtLeast(nb_records, batch, previous, current, if_changes) ==
    IF nb_records >= batch \/ (previous # current /\ if_changes)
    THEN IF nb_records >= batch THEN current ELSE previous
    ELSE None

\* As StreamToSync, with the stream of the record selected by both triggers.
StreamToSyncCurrent(nb_records, batch, previous, current, if_changes) ==
    IF nb_records % batch = 0 \/ (previous # current /\ if_changes)
    THEN current
    ELSE None

\* As StreamToSync, with the stream-change test taken first.
StreamToSyncChangeFirst(nb_records, batch, previous, current, if_changes) ==
    IF nb_records % batch = 0 \/ (previous # current /\ if_changes)
    THEN IF previous # current /\ if_changes THEN previous ELSE current
    ELSE None

\* As StreamToSync, with the operands of the modulo exchanged.
StreamToSyncDivides(nb_records, batch, previous, current, if_changes) ==
    IF batch % nb_records = 0 \/ (previous # current /\ if_changes)
    THEN IF batch % nb_records = 0 THEN current ELSE previous
    ELSE None

\* The condition of the interim sync and the stream it selects, None for no sync.
StreamToSync(nb_records, batch, previous, current, if_changes) ==
    IF nb_records % batch = 0 \/ (previous # current /\ if_changes)
    THEN IF nb_records % batch = 0 THEN current ELSE previous
    ELSE None

\* As StateAfterRecord, without the reset of the checkpoint.
StateKeptAfterRecord(old) == old

\* state = None at the end of the RECORD branch.
StateAfterRecord(old) == None

\* emit_state: the lines written to stdout.
EmitStateLines(s) == IF s # None THEN <<JsonDumps(s)>> ELSE <<>>

\* One upload as logged: the blob, the rows of the file, the loop that made it.
Upload(stream, entry, final) ==
    [stream |-> stream, blob |-> BlobName(stream, entry.nb_sync),
     rows |-> entry.tmp_file, final |-> final]

Raise(e) == pc' = "raised" /\ error' = e

\* As LoadToGcs, with the file truncated before the upload is attempted.
LoadToGcsTruncateEarly(entry, ok) ==
    IF IsEmptyFile(entry.tmp_file)
    THEN [result |-> "skipped", entry |-> entry]
    ELSE [result |-> IF ok THEN "uploaded" ELSE "raised",
          entry |-> [entry EXCEPT !.tmp_file = Truncated(@)]]

\* _load_to_gcs on one stream's entry: skipped for an empty file, else the
\* upload succeeds (the file is truncated) or raises (the file is kept).
LoadToGcs(entry, ok) ==
    IF IsEmptyFile(entry.tmp_file)
    THEN [result |-> "skipped", entry |-> entry]
    ELSE IF ok
         THEN [result |-> "uploaded",
               entry |-> [entry EXCEPT !.tmp_file = Truncated(@)]]
         ELSE [result |-> "raised", entry |-> entry]

\* As FinalStreams, the final loop leaving after its first stream.
FinalStreamsFirstOnly(keys) == IF keys = <<>> THEN keys ELSE <<keys[1]>>

\* The streams of the final loop, in the order of stream_config.keys().
FinalStreams(keys) == keys

\* The temporary files that are open: one is opened for each new stream (line
\* 132) and no statement of persist_lines or main closes or deletes one
\* (tmp_dir.cleanup() is in sync_records, which is never called).
OpenFiles == DOMAIN stream_config

\* ------------------------------------------------------------------ Init

ConfigInit ==
    /\ sync_batch \in (1..MaxSyncBatch) \cup {DefaultSyncBatch}
    /\ sync_if_stream_changes \in BOOLEAN

Init ==
    /\ ConfigInit
    /\ stream_config = EmptyDict
    /\ stream_keys = <<>>
    /\ previous_stream = None
    /\ state = None
    /\ schemas = EmptyDict
    /\ validators = EmptyDict
    /\ key_properties = EmptyDict
    /\ pc = "loop"
    /\ error = None
    /\ final_pos = 0
    /\ gcs = <<>>
    /\ stdout = <<>>
    /\ lines_read = <<>>

\* ------------------------------------------------------------------ the loop

\* json.loads fails, or the object has no "type".
OnBadLine(o) ==
    /\ pc = "loop"
    /\ lines_read' = Append(lines_read, o)
    /\ Raise(IF o = UndecodableLine THEN "JSONDecodeError" ELSE "MissingType")
    /\ UNCHANGED <<config, batches, previous_stream, state, registry,
                   final_pos, gcs, stdout>>

\* t == "RECORD"
OnRecord(o, ok) ==
    /\ pc = "loop"
    /\ o.type = "RECORD"
    /\ lines_read' = Append(lines_read, o)
    /\ UNCHANGED <<config, registry, final_pos, stdout>>
    /\ IF o.stream = None
       THEN /\ Raise("MissingStream")
            /\ UNCHANGED <<batches, previous_stream, state, gcs>>
       ELSE LET line == Len(lines_read) + 1
                previous == IF previous_stream = None THEN o.stream
                            ELSE previous_stream
                known == o.stream \in DOMAIN stream_config
                entry == AppendRow(IF known THEN stream_config[o.stream]
                                   ELSE NewStreamEntry, line)
                appended == Put(stream_config, o.stream, entry)
                stream == StreamToSync(entry.nb_records, sync_batch, previous,
                                       o.stream, sync_if_stream_changes)
            IN  /\ stream_keys' = IF known THEN stream_keys
                                  ELSE Append(stream_keys, o.stream)
                /\ IF stream = None
                   THEN /\ stream_config' = appended
                        /\ previous_stream' = o.stream
                        /\ state' = StateAfterRecord(state)
                        /\ UNCHANGED <<pc, error, gcs>>
                   ELSE LET load == LoadToGcs(appended[stream], ok)
                        IN  IF load.result = "raised"
                            THEN /\ Raise("UploadError")
                                 /\ stream_config' = Put(appended, stream, load.entry)
                                 /\ previous_stream' = previous
                                 /\ UNCHANGED <<state, gcs>>
                            ELSE /\ stream_config' =
                                      Put(appended, stream, AdvanceSync(load.entry))
                                 /\ gcs' = IF load.result = "uploaded"
                                           THEN Append(gcs, Upload(stream,
                                                    appended[stream], FALSE))
                                           ELSE gcs
                                 /\ previous_stream' = o.stream
                                 /\ state' = StateAfterRecord(state)
                                 /\ UNCHANGED <<pc, error>>

\* As OnState, with the checkpoint written to stdout as soon as it is read.
OnStateEmitNow(o) ==
    /\ pc = "loop"
    /\ o.type = "STATE"
    /\ lines_read' = Append(lines_read, o)
    /\ state' = o.body
    /\ stdout' = stdout \o EmitStateLines(o.body)
    /\ UNCHANGED <<config, batches, previous_stream, registry, pc, error,
                   final_pos, gcs>>

\* t == "STATE"
OnState(o) ==
    /\ pc = "loop"
    /\ o.type = "STATE"
    /\ lines_read' = Append(lines_read, o)
    /\ state' = o.body
    /\ UNCHANGED <<config, batches, previous_stream, registry, pc, error,
                   final_pos, gcs, stdout>>

\* As OnSchema, with key_properties read by o.get: its absence is no error.
OnSchemaNoKeyCheck(o) ==
    /\ pc = "loop"
    /\ o.type = "SCHEMA"
    /\ lines_read' = Append(lines_read, o)
    /\ UNCHANGED <<config, batches, previous_stream, state, final_pos, gcs,
                   stdout>>
    /\ IF o.stream = None
       THEN /\ Raise("MissingStream")
            /\ UNCHANGED registry
       ELSE /\ schemas' = Put(schemas, o.stream, o.body)
            /\ validators' = Put(validators, o.stream, o.body)
            /\ key_properties' = Put(key_properties, o.stream,
                                     IF o.kp THEN <<"id">> ELSE <<>>)
            /\ UNCHANGED <<pc, error>>

\* t == "SCHEMA"
OnSchema(o) ==
    /\ pc = "loop"
    /\ o.type = "SCHEMA"
    /\ lines_read' = Append(lines_read, o)
    /\ UNCHANGED <<config, batches, previous_stream, state, final_pos, gcs,
                   stdout>>
    /\ IF o.stream = None
       THEN /\ Raise("MissingStream")
            /\ UNCHANGED registry
       ELSE /\ schemas' = Put(schemas, o.stream, o.body)
            /\ validators' = Put(validators, o.stream, o.body)
            /\ IF ~o.kp
               THEN /\ Raise("MissingKeyProperties")
                    /\ UNCHANGED key_properties
               ELSE /\ key_properties' = Put(key_properties, o.stream, <<"id">>)
                    /\ UNCHANGED <<pc, error>>

\* As OnUnknown, with an unknown type treated as an error.
OnUnknownRaise(o) ==
    /\ pc = "loop"
    /\ o.type \notin {"RECORD", "STATE", "SCHEMA", None, "<undecodable>"}
    /\ lines_read' = Append(lines_read, o)
    /\ Raise("UnknownType")
    /\ UNCHANGED <<config, batches, previous_stream, state, registry,
                   final_pos, gcs, stdout>>

\* Any other type: a warning is logged.
OnUnknown(o) ==
    /\ pc = "loop"
    /\ o.type \notin {"RECORD", "STATE", "SCHEMA", None, "<undecodable>"}
    /\ lines_read' = Append(lines_read, o)
    /\ UNCHANGED <<config, batches, previous_stream, state, registry, pc,
                   error, final_pos, gcs, stdout>>

\* The input is exhausted: the for loop over the lines ends.
EndOfInput ==
    /\ pc = "loop"
    /\ pc' = "final"
    /\ final_pos' = 1
    /\ UNCHANGED <<config, batches, previous_stream, state, registry, error,
                   gcs, stdout, lines_read>>

\* One iteration of the final loop over stream_config.keys().
FinalFlush ==
    /\ pc = "final"
    /\ final_pos <= Len(FinalStreams(stream_keys))
    /\ \E ok \in BOOLEAN :
         LET stream == FinalStreams(stream_keys)[final_pos]
             load == LoadToGcs(stream_config[stream], ok)
         IN  IF load.result = "raised"
             THEN /\ Raise("UploadError")
                  /\ stream_config' = Put(stream_config, stream, load.entry)
                  /\ UNCHANGED <<gcs, final_pos>>
             ELSE /\ stream_config' = Put(stream_config, stream, load.entry)
                  /\ gcs' = IF load.result = "uploaded"
                            THEN Append(gcs, Upload(stream, stream_config[stream],
                                                    TRUE))
                            ELSE gcs
                  /\ final_pos' = final_pos + 1
                  /\ UNCHANGED <<pc, error>>
    /\ UNCHANGED <<config, stream_keys, previous_stream, state, registry,
                   stdout, lines_read>>

\* return state
Return ==
    /\ pc = "final"
    /\ final_pos > Len(FinalStreams(stream_keys))
    /\ pc' = "returned"
    /\ UNCHANGED <<config, batches, previous_stream, state, registry, error,
                   final_pos, gcs, stdout, lines_read>>

\* main: emit_state(state) once persist_lines has returned.
MainEmitState ==
    /\ pc = "returned"
    /\ stdout' = stdout \o EmitStateLines(state)
    /\ pc' = "done"
    /\ UNCHANGED <<config, batches, previous_stream, state, registry, error,
                   final_pos, gcs, lines_read>>

\* ------------------------------------------------------------------ Next

ReadRecord ==
    /\ Len(lines_read) < MaxLines
    /\ \E o \in RecordLines \cup {l \in NoStreamLines : l.type = "RECORD"},
          ok \in BOOLEAN : OnRecord(o, ok)

ReadState ==
    /\ Len(lines_read) < MaxLines
    /\ \E o \in StateLines : OnState(o)

ReadSchema ==
    /\ Len(lines_read) < MaxLines
    /\ \E o \in SchemaLines \cup NoKeyPropertiesLines
                \cup {l \in NoStreamLines : l.type = "SCHEMA"} : OnSchema(o)

ReadUnknown ==
    /\ Len(lines_read) < MaxLines
    /\ \E o \in UnknownLines : OnUnknown(o)

ReadBadLine ==
    /\ Len(lines_read) < MaxLines
    /\ \E o \in {UndecodableLine, NoTypeLine} : OnBadLine(o)

Next ==
    \/ ReadRecord
    \/ ReadState
    \/ ReadSchema
    \/ ReadUnknown
    \/ ReadBadLine
    \/ EndOfInput
    \/ FinalFlush
    \/ Return
    \/ MainEmitState

Spec == Init /\ [][Next]_vars

\* Records only, longer inputs: the batching of the interim syncs.
BatchLines == {Msg("RECORD", s, "rec_id_int", FALSE) : s \in Streams}

ReadBatchRecord ==
    /\ Len(lines_read) < MaxRecordLines
    /\ \E o \in BatchLines, ok \in BOOLEAN : OnRecord(o, ok)

NextBatch ==
    \/ ReadBatchRecord
    \/ EndOfInput
    \/ FinalFlush
    \/ Return
    \/ MainEmitState

SpecBatch == Init /\ [][NextBatch]_vars

\* ------------------------------------------------------------------ history

IsRecord(i) == lines_read[i].type = "RECORD" /\ lines_read[i].stream # None
IsState(i) == lines_read[i].type = "STATE"
IsSchema(i) == lines_read[i].type = "SCHEMA" /\ lines_read[i].stream # None

\* The input lines that are RECORD messages, and those of one stream.
RecordLineNos == {i \in 1..Len(lines_read) : IsRecord(i)}
RecordsOf(s) == {i \in RecordLineNos : lines_read[i].stream = s}

Range(f) == {f[i] : i \in DOMAIN f}

\* The uploads whose object is still in the bucket: not overwritten later.
Stored == {u \in 1..Len(gcs) : \A v \in (u + 1)..Len(gcs) : gcs[v].blob # gcs[u].blob}

\* The uploads of one stream, interim or final.
UploadsOf(s) == {u \in 1..Len(gcs) : gcs[u].stream = s}
InterimOf(s) == {u \in UploadsOf(s) : ~gcs[u].final}

Completed == pc \in {"returned", "done"}

BuffersEmpty == \A s \in DOMAIN stream_config : IsEmptyFile(stream_config[s].tmp_file)

\* ------------------------------------------------------------------ claims

\* C1: when persist_lines has returned, every RECORD of the input is a row of
\* an object of its stream that is in the bucket, and every stream's buffer is
\* empty.
AtLeastOnceDelivery ==
    Completed =>
        /\ \A i \in RecordLineNos :
             \E u \in Stored : /\ gcs[u].stream = lines_read[i].stream
                               /\ i \in Range(gcs[u].rows)
        /\ BuffersEmpty

\* C1 witness: a completed run over two streams with an interim and a final upload.
AtLeastOnceWitness ==
    /\ pc = "returned"
    /\ \A s \in Streams : RecordsOf(s) # {}
    /\ \E u, v \in 1..Len(gcs) : gcs[u].final /\ ~gcs[v].final

\* The checkpoint a completed run is to emit: the value of the last STATE
\* message when it is not null and no RECORD follows it.
LastState == CHOOSE i \in 1..Len(lines_read) :
                 IsState(i) /\ \A j \in (i + 1)..Len(lines_read) : ~IsState(j)
ExpectedCheckpoint ==
    IF /\ \E i \in 1..Len(lines_read) : IsState(i)
       /\ lines_read[LastState].body # None
       /\ \A j \in RecordLineNos : j < LastState
    THEN <<JsonDumps(lines_read[LastState].body)>>
    ELSE <<>>

\* C2: a completed run emits exactly the value of the last STATE message when
\* no RECORD follows it and it is not null, and nothing otherwise; SCHEMA and
\* unknown messages after the last STATE change nothing.
CheckpointIsLastState ==
    pc = "done" => stdout = ExpectedCheckpoint

\* C2 witness: RECORD, STATE, then a SCHEMA or unknown message, and the
\* checkpoint has been emitted.
CheckpointWitness ==
    /\ pc = "done"
    /\ stdout # <<>>
    /\ RecordLineNos # {}
    /\ lines_read[Len(lines_read)].type \in {"SCHEMA", "ACTIVATE_VERSION"}

\* C3: once a checkpoint is on stdout no buffer holds a row, and a run in which
\* an upload raised has written no checkpoint.
CheckpointOnlyAfterUpload ==
    /\ stdout # <<>> => BuffersEmpty /\ Completed
    /\ error = "UploadError" => stdout = <<>>

\* C3 witness: a checkpoint emitted after records were uploaded.
CheckpointAfterUploadWitness ==
    /\ stdout # <<>>
    /\ Len(gcs) >= 1

\* C3, the failing side: an upload raised after a STATE message was read.
UploadFailedWitness ==
    /\ error = "UploadError"
    /\ \E i \in 1..Len(lines_read) : IsState(i) /\ lines_read[i].body # None

\* The lines before line i that registered a schema for the stream of line i.
SchemasBefore(i) ==
    {j \in 1..(i - 1) : IsSchema(j) /\ lines_read[j].stream = lines_read[i].stream}

\* The schema last registered for the stream of line i before line i.
SchemaAt(i) ==
    lines_read[CHOOSE j \in SchemasBefore(i) : \A k \in SchemasBefore(i) : k <= j].body

\* Line i is the last line read, it ended the run, and its record is in no
\* buffer and in no uploaded object.
RejectedAt(i) ==
    /\ pc = "raised"
    /\ i = Len(lines_read)
    /\ \A s \in DOMAIN stream_config : i \notin Range(stream_config[s].tmp_file)
    /\ \A u \in 1..Len(gcs) : i \notin Range(gcs[u].rows)

\* C4: a RECORD of a stream that had no SCHEMA message before it ends the run
\* with an error; the record is neither buffered nor uploaded.
RecordWithoutSchemaFails ==
    \A i \in RecordLineNos : SchemasBefore(i) = {} => RejectedAt(i)

\* C5: a RECORD that does not conform to the schema last registered for its
\* stream ends the run with an error; the record is neither buffered nor
\* uploaded and no checkpoint is emitted.
NonConformingRecordFails ==
    \A i \in RecordLineNos :
        (SchemasBefore(i) # {} /\ ~Conforms(lines_read[i].body, SchemaAt(i)))
            => RejectedAt(i) /\ stdout = <<>>

\* C6: every uploaded object has at least one row, and a stream without any
\* RECORD has no object.
NoEmptyObject ==
    /\ \A u \in 1..Len(gcs) : Len(gcs[u].rows) >= 1
    /\ \A s \in Streams : RecordsOf(s) = {} => UploadsOf(s) = {}

\* C6 witness: a completed run in which the final loop skipped the empty file
\* of a stream synced before, and another stream had a SCHEMA but no RECORD.
NoEmptyObjectWitness ==
    /\ Completed
    /\ \E s \in DOMAIN stream_config : \A u \in UploadsOf(s) : ~gcs[u].final
    /\ \E s \in DOMAIN schemas : RecordsOf(s) = {}

\* C7: no two uploads of a run have the same blob name.
UniqueBlobNames ==
    \A u, v \in 1..Len(gcs) : u # v => gcs[u].blob # gcs[v].blob

\* C7 witness: a stream with two interim uploads and a final one.
UniqueBlobNamesWitness ==
    \E s \in Streams :
        /\ Cardinality(InterimOf(s)) >= 2
        /\ \E u \in UploadsOf(s) : gcs[u].final

\* C8: a stream's nb_sync is one more than the number of objects uploaded for
\* it by interim syncs.
SequenceCountsUploads ==
    \A s \in DOMAIN stream_config :
        stream_config[s].nb_sync = 1 + Cardinality(InterimOf(s))

\* C9: between two input lines, a stream's nb_records is the number of rows in
\* its buffer (so 0 right after a sync of the stream).
RecordCountIsBufferLength ==
    pc = "loop" =>
        \A s \in DOMAIN stream_config :
            stream_config[s].nb_records = Len(stream_config[s].tmp_file)

\* C10: without stream-change syncs, after k RECORDs of a stream and
\* sync_batch = n the stream has k \div n interim uploads, named 1 .. k \div n,
\* of n rows each, whatever the other streams received.
BatchSizeUploads ==
    (error = None /\ ~sync_if_stream_changes) =>
        \A s \in Streams :
            LET k == Cardinality(RecordsOf(s))
            IN  /\ Cardinality(InterimOf(s)) = k \div sync_batch
                /\ {gcs[u].blob : u \in InterimOf(s)} =
                       {BlobName(s, q) : q \in 1..(k \div sync_batch)}
                /\ \A u \in InterimOf(s) : Len(gcs[u].rows) = sync_batch

\* C10 witness: interleaved records of two streams, two interim uploads of one
\* stream and one of the other.
BatchSizeWitness ==
    /\ error = None
    /\ ~sync_if_stream_changes
    /\ sync_batch > 1
    /\ \E s, t \in Streams :
        /\ Cardinality(InterimOf(s)) = 2
        /\ Cardinality(InterimOf(t)) = 1
        /\ \E i \in RecordsOf(t) : \E j, k \in RecordsOf(s) : j < i /\ i < k

\* ------------------------------------------------------------------ steps

\* The step reads one input line; Line is that line.
ReadsLine == Len(lines_read') = Len(lines_read) + 1
Line == lines_read'[Len(lines_read')]

\* The step reads a RECORD message that has a stream.
ReadsRecord == ReadsLine /\ Line.type = "RECORD" /\ Line.stream # None

\* The stream of the last RECORD read so far, None before the first one.
LastRecordStream ==
    IF RecordLineNos = {} THEN None
    ELSE lines_read[CHOOSE i \in RecordLineNos : \A j \in RecordLineNos : j <= i].stream

\* The step crosses a stream boundary: a RECORD of another stream than the
\* RECORD before it.
CrossesBoundary ==
    ReadsRecord /\ LastRecordStream # None /\ LastRecordStream # Line.stream

\* Only the batch-size default applies: no count of the model reaches it.
Unbounded == sync_batch = DefaultSyncBatch

\* C11, one step: with stream-change syncs on and no batch-size sync, a RECORD
\* that crosses a stream boundary uploads exactly the whole buffer of the
\* previous stream and nothing of the new stream; any other RECORD (the first
\* one too) uploads nothing.
StreamChangeStep ==
    (ReadsRecord /\ sync_if_stream_changes /\ Unbounded /\ error' = None) =>
        IF CrossesBoundary
        THEN /\ stream_config[LastRecordStream].tmp_file # <<>>
             /\ gcs' = Append(gcs,
                    [stream |-> LastRecordStream,
                     blob |-> BlobName(LastRecordStream,
                                       stream_config[LastRecordStream].nb_sync),
                     rows |-> stream_config[LastRecordStream].tmp_file,
                     final |-> FALSE])
             /\ stream_config'[LastRecordStream].tmp_file = <<>>
        ELSE gcs' = gcs

\* C11, the consequence: between two lines only the stream of the last RECORD
\* has rows in its buffer.
OnlyCurrentBuffered ==
    (sync_if_stream_changes /\ Unbounded /\ error = None) =>
        \A s \in DOMAIN stream_config :
            s # LastRecordStream => IsEmptyFile(stream_config[s].tmp_file)

\* C11: a RECORD of another stream than the RECORD before it uploads the whole
\* buffer of the previous stream while it is processed, before any upload of
\* the new stream; the first RECORD uploads nothing; hence only the current
\* stream has a non-empty buffer after a RECORD.
StreamChangeFlush ==
    [](OnlyCurrentBuffered) /\ [][StreamChangeStep]_vars

\* C11 witness: RECORD(A), RECORD(B), RECORD(A) read: the first object is of
\* the first stream, the second of the other, and the third record is buffered.
StreamChangeWitness ==
    /\ sync_if_stream_changes /\ Unbounded /\ pc = "loop"
    /\ Len(gcs) = 2
    /\ gcs[1].stream # gcs[2].stream
    /\ gcs[1].stream = LastRecordStream
    /\ stream_config[LastRecordStream].tmp_file # <<>>

\* p is a prefix of q.
IsPrefix(p, q) == Len(p) <= Len(q) /\ SubSeq(q, 1, Len(p)) = p

\* The run has ended with an exception: nothing is read, uploaded or emitted
\* any more.
NoStepAfterRaise == pc # "raised"

\* C12, the failing step: the upload that raises adds no object, truncates no
\* buffer (the buffer that was being uploaded keeps its rows), advances no
\* nb_sync and ends the run.
UploadFailureStep ==
    (error = None /\ error' = "UploadError") =>
        /\ pc' = "raised"
        /\ gcs' = gcs
        /\ stdout' = stdout
        /\ \E s \in DOMAIN stream_config' : stream_config'[s].tmp_file # <<>>
        /\ \A s \in DOMAIN stream_config' :
             IF s \in DOMAIN stream_config
             THEN /\ IsPrefix(stream_config[s].tmp_file, stream_config'[s].tmp_file)
                  /\ stream_config'[s].nb_sync = stream_config[s].nb_sync
             ELSE /\ Len(stream_config'[s].tmp_file) = 1
                  /\ stream_config'[s].nb_sync = 1

\* C12: an upload that raises ends the run: the error leaves persist_lines, no
\* later line is read, no further upload is attempted, the buffer is not
\* truncated and nb_sync is not advanced.
UploadFailureIsFatal ==
    [][UploadFailureStep]_vars /\ [][NoStepAfterRaise]_vars

\* C12 witness: an upload raised after an earlier one succeeded, with input
\* left unread.
UploadFailureWitness ==
    /\ error = "UploadError"
    /\ Len(gcs) >= 1
    /\ Len(lines_read) < MaxLines

\* The lines that are protocol errors, and the exception of each.
ProtocolError(o) ==
    CASE o = UndecodableLine -> "JSONDecodeError"
      [] o = NoTypeLine -> "MissingType"
      [] o \in NoStreamLines -> "MissingStream"
      [] o \in NoKeyPropertiesLines -> "MissingKeyProperties"
      [] OTHER -> None

\* C13, in every state: a protocol error is the last line read, the run has
\* ended with its exception, the final loop has uploaded nothing and no
\* checkpoint is on stdout.
ProtocolErrorEndsRun ==
    \A i \in 1..Len(lines_read) :
        ProtocolError(lines_read[i]) # None =>
            /\ i = Len(lines_read)
            /\ pc = "raised"
            /\ error = ProtocolError(lines_read[i])
            /\ stdout = <<>>
            /\ \A u \in 1..Len(gcs) : ~gcs[u].final

\* C13, the failing step: the objects uploaded before stay as they are and the
\* buffers keep their rows.
ProtocolErrorStep ==
    (ReadsLine /\ ProtocolError(Line) # None) =>
        gcs' = gcs /\ UNCHANGED batches

\* C13: a line without type, a RECORD or SCHEMA without stream, a SCHEMA
\* without key_properties or an undecodable line ends the run at once: no later
\* line is read, the buffers are not flushed, no checkpoint is emitted, and the
\* objects uploaded before remain.
ProtocolErrorIsFatal ==
    [](ProtocolErrorEndsRun) /\ [][ProtocolErrorStep]_vars
        /\ [][pc = "raised" => pc' = "raised"]_vars

\* C13 witness: a SCHEMA without key_properties read after an upload, with
\* rows left in a buffer.
ProtocolErrorWitness ==
    /\ error = "MissingKeyProperties"
    /\ Len(gcs) >= 1
    /\ ~BuffersEmpty

\* The buffer of stream s before the step, empty for a stream not seen yet.
BufferOf(s) == IF s \in DOMAIN stream_config THEN stream_config[s].tmp_file ELSE <<>>

\* The step uploads the buffer of the stream of its RECORD, the new row included.
UploadsCurrent ==
    /\ Len(gcs') = Len(gcs) + 1
    /\ SubSeq(gcs', 1, Len(gcs)) = gcs
    /\ gcs'[Len(gcs')].stream = Line.stream
    /\ gcs'[Len(gcs')].rows = Append(BufferOf(Line.stream), Len(lines_read'))

\* C14, one step: a line causes at most one upload; a RECORD that brings
\* nb_records of its stream to a multiple of sync_batch while crossing a stream
\* boundary uploads its own stream and leaves the previous stream's entry as it
\* was; SCHEMA, STATE and unknown messages upload nothing and touch no buffer.
OneFlushStep ==
    /\ ReadsLine => Len(gcs') <= Len(gcs) + 1
    /\ (/\ CrossesBoundary
        /\ sync_if_stream_changes
        /\ error' = None
        /\ stream_config'[Line.stream].nb_records % sync_batch = 0)
         => /\ UploadsCurrent
            /\ stream_config'[LastRecordStream] = stream_config[LastRecordStream]
    /\ (ReadsLine /\ Line.type \in {"SCHEMA", "STATE", "ACTIVATE_VERSION"})
         => gcs' = gcs /\ UNCHANGED batches

\* C14: one flush decision per RECORD, the batch-size trigger first: when both
\* triggers apply the current stream alone is flushed and the previous
\* stream's buffer, count and sequence number stay; no other message flushes.
BatchTriggerPrecedence == [][OneFlushStep]_vars

\* C14 witness: both triggers applied to the last RECORD: its stream was
\* uploaded last and the previous stream still has rows in its buffer.
BatchTriggerPrecedenceWitness ==
    /\ pc = "loop" /\ sync_if_stream_changes /\ sync_batch > 1
    /\ Len(lines_read) >= 2
    /\ \A i \in (Len(lines_read) - 1)..Len(lines_read) : IsRecord(i)
    /\ lines_read[Len(lines_read) - 1].stream # LastRecordStream
    /\ stream_config[LastRecordStream].nb_records % sync_batch = 0
    /\ Len(gcs) >= 1 /\ gcs[Len(gcs)].stream = LastRecordStream
    /\ Len(lines_read) \in Range(gcs[Len(gcs)].rows)
    /\ stream_config[lines_read[Len(lines_read) - 1].stream].tmp_file # <<>>

\* C15, one step: with stream-change syncs on, a RECORD uploads its own stream
\* (the batch-size trigger) exactly when the rows appended to that stream since
\* its last flush reach sync_batch, so the object has sync_batch rows.
BatchTriggerStep ==
    (ReadsRecord /\ sync_if_stream_changes /\ error' = None) =>
        /\ (Len(gcs') > Len(gcs) /\ gcs'[Len(gcs')].stream = Line.stream)
               <=> Len(BufferOf(Line.stream)) + 1 = sync_batch
        /\ (Len(gcs') > Len(gcs) /\ gcs'[Len(gcs')].stream = Line.stream)
               => Len(gcs'[Len(gcs')].rows) = sync_batch

\* C15: with sync_batch = n and stream-change flushes on, the batch-size
\* trigger of a stream fires exactly when n records were appended to it since
\* its last flush, and every object it uploads has exactly n records.
BatchTriggerCountsSinceFlush == [][BatchTriggerStep]_vars

\* The run has ended, normally or with an exception.
Ended == pc \in {"done", "raised"}

\* C16: when the run has ended, normally or by a protocol error or an upload
\* failure, no stream's temporary file is still open.
BuffersReleased == Ended => OpenFiles = {}

\* d and e are the same dict except possibly at key k.
SameExceptAt(d, e, k) ==
    /\ DOMAIN e \ {k} = DOMAIN d \ {k}
    /\ \A x \in DOMAIN d \ {k} : e[x] = d[x]

\* C17, one step: an unknown message changes nothing and the run goes on; a
\* STATE message changes only state; a SCHEMA message changes only the entries
\* of its own stream in schemas, validators and key_properties.
FrameStep ==
    /\ (ReadsLine /\ Line \in UnknownLines) =>
          /\ pc' = "loop" /\ error' = None
          /\ UNCHANGED <<config, batches, previous_stream, state, registry,
                         final_pos, gcs, stdout>>
    /\ (ReadsLine /\ Line \in StateLines) =>
          /\ state' = Line.body
          /\ UNCHANGED <<config, batches, previous_stream, registry, pc, error,
                         final_pos, gcs, stdout>>
    /\ (ReadsLine /\ Line \in SchemaLines) =>
          /\ schemas'[Line.stream] = Line.body
          /\ SameExceptAt(schemas, schemas', Line.stream)
          /\ SameExceptAt(validators, validators', Line.stream)
          /\ SameExceptAt(key_properties, key_properties', Line.stream)
          /\ UNCHANGED <<config, batches, previous_stream, state, pc, error,
                         final_pos, gcs, stdout>>

\* C17: unknown, STATE and SCHEMA messages leave everything else unchanged:
\* none of them creates a buffer entry or uploads, and the run continues after
\* an unknown message.
NonRecordFrame == [][FrameStep]_vars

\* C17 witness: an unknown message read while a checkpoint, a registered
\* schema and a buffered row were held, all still there.
NonRecordFrameWitness ==
    /\ pc = "loop"
    /\ Len(lines_read) >= 1
    /\ lines_read[Len(lines_read)] \in UnknownLines
    /\ state # None
    /\ DOMAIN schemas # {}
    /\ ~BuffersEmpty

\* C18: every RECORD of the input is a row of at most one uploaded object, and
\* once only.
NoDuplicateDelivery ==
    /\ \A i \in RecordLineNos :
         Cardinality({u \in 1..Len(gcs) : i \in Range(gcs[u].rows)}) <= 1
    /\ \A u \in 1..Len(gcs) :
         Cardinality(Range(gcs[u].rows)) = Len(gcs[u].rows)

\* C18 witness: a completed run with three objects of one stream.
NoDuplicateWitness ==
    /\ Completed
    /\ \E s \in Streams : Cardinality(UploadsOf(s)) >= 3

\* C19: between two lines and after the run, every buffer holds fewer than
\* sync_batch rows, and no uploaded object, interim or final, has more than
\* sync_batch rows, with stream-change syncs on or off.
BatchSizeBound ==
    /\ error = None =>
         \A s \in DOMAIN stream_config :
             Len(stream_config[s].tmp_file) < sync_batch
    /\ \A u \in 1..Len(gcs) : Len(gcs[u].rows) <= sync_batch

\* C19 witness: stream-change syncs on, an object of sync_batch rows uploaded
\* and a buffer one row short of sync_batch.
BatchSizeBoundWitness ==
    /\ pc = "loop" /\ sync_if_stream_changes /\ sync_batch >= 2
    /\ \E u \in 1..Len(gcs) : Len(gcs[u].rows) = sync_batch
    /\ \E s \in DOMAIN stream_config :
         Len(stream_config[s].tmp_file) = sync_batch - 1

\* The rows of the object of stream s with sequence number n that is in the
\* bucket, <<>> when there is none.
RowsNamed(s, n) ==
    IF \E u \in Stored : gcs[u].blob = BlobName(s, n)
    THEN gcs[CHOOSE u \in Stored : gcs[u].blob = BlobName(s, n)].rows
    ELSE <<>>

\* The objects of stream s with sequence numbers 1..n, concatenated.
RECURSIVE ConcatUpTo(_, _)
ConcatUpTo(s, n) ==
    IF n = 0 THEN <<>> ELSE ConcatUpTo(s, n - 1) \o RowsNamed(s, n)

\* The largest sequence number of an object of stream s, 0 when there is none.
LastSequence(s) ==
    IF UploadsOf(s) = {} THEN 0
    ELSE LET seqs == {gcs[u].blob[2] : u \in UploadsOf(s)}
         IN  CHOOSE n \in seqs : \A m \in seqs : m <= n

\* The elements of a set of line numbers, in the order of the input.
RECURSIVE Ascending(_)
Ascending(S) ==
    IF S = {} THEN <<>>
    ELSE LET m == CHOOSE x \in S : \A y \in S : x <= y
         IN  <<m>> \o Ascending(S \ {m})

\* C20: for every stream, its objects concatenated by increasing sequence
\* number, followed by the rows still in its buffer, are its RECORDs in input
\* order; an object holds rows of its own stream only.
OrderPreserved ==
    /\ \A s \in Streams :
         ConcatUpTo(s, LastSequence(s)) \o BufferOf(s) = Ascending(RecordsOf(s))
    /\ \A u \in 1..Len(gcs) : Range(gcs[u].rows) \subseteq RecordsOf(gcs[u].stream)

\* C20 witness: a completed run, two streams interleaved, one with three
\* records spread over at least two objects.
OrderPreservedWitness ==
    /\ Completed
    /\ \E s, t \in Streams :
        /\ Cardinality(UploadsOf(s)) >= 2
        /\ Cardinality(RecordsOf(s)) >= 3
        /\ \E i \in RecordsOf(t) : \E j, k \in RecordsOf(s) : j < i /\ i < k

====
